---- MODULE Spec2Model ----
(***************************************************************************)
(* Wand Protocol Engine of the Web Wand Utility (App component):          *)
(* connection supervision, keepalive, notification decoding, macro        *)
(* encoding with chunked transmission, and opcode discovery.              *)
(*                                                                         *)
(* One action is one JavaScript task: an event handler, a timer callback, *)
(* or the continuation of an async function after an awaited transport    *)
(* promise settles.  React state is taken to be rendered before the next  *)
(* task runs, so a handler sees the state its closure was created with.   *)
(***************************************************************************)
EXTENDS Integers, Sequences, FiniteSets, TLC

\* ------------------------------------------------------------------ bounds

\* Wands in radio range that the device chooser can return.
NumDevices == 2
\* connect() calls that may be awaiting the transport at the same time.
MaxInFlight == 2
\* Total connect() calls in one run.
MaxConnectCalls == 3
\* Pending 3 s Error-revert timeouts.
MaxErrorTimers == 2

\* Longest inbound notification payload drawn, in bytes.
MaxPayloadLen == 8

\* Commands in a macro built from the Add menu, and sendMacro calls in one run.
MaxMacroLen == 4
MaxCastCalls == 2
\* testNextOpCode calls awaiting their write at the same time, activations of the
\* discovery mode in one run, and probe writes that fail on a live link.
MaxProbesInFlight == 2
\* A click made while an earlier probe write is pending comes before the counter has
\* moved this far past the value that write captured.
MaxProbeLag == 1
MaxActivations == 1
MaxProbeFaults == 0
\* Commands in a macro whose durations and colors were edited.
MaxEditedLen == 2
\* Edits of the opcode table and of the macro list in one run.
MaxEdits == 1
\* Milliseconds the clock advances in one run.
MaxClock == 2
\* startSniffing calls, and stopSniffing calls, awaiting the transport at the same time.
MaxSniffsInFlight == 1
MaxStopsInFlight == 1
\* Total startSniffing calls in one run.
MaxSniffCalls == 1

DeviceNames == <<"wandA", "wandB", "wandC", "wandD">>
Devices == {DeviceNames[i] : i \in 1..NumDevices}
Slots == 1..MaxInFlight

\* ------------------------------------------------------- program constants

\* WandGatt
KEEPALIVE_COMMAND == <<1>>
SPELL_DATA_HEADER_LEN == 4
SPELL_MIN_LEN == 7
MTU_PAYLOAD_SIZE == 20

\* enum ConnectionStatus
DISCONNECTED == "Disconnected"
CONNECTING == "Connecting..."
CONNECTED == "Connected"
ERROR == "Error"
ConnectionStatus == {DISCONNECTED, CONNECTING, CONNECTED, ERROR}

\* enum LogType
LogType == {"info", "spell", "raw", "command", "error"}

\* null of a ref, and the undefined `data` of a log entry
Null == "null"
NoData == "undefined"

VARIABLES
    hasBluetooth,          \* navigator.bluetooth is present
    mounted,               \* the App component is mounted
    connectionStatus,      \* useState<ConnectionStatus>
    deviceRef,             \* useRef: the BluetoothDevice, or Null
    writeCharRef,          \* useRef: the write characteristic (named by its device), or Null
    keepAliveIntervalRef,  \* useRef: TRUE while a setInterval handle is stored
    errorTimers,           \* pending setTimeout(..., 3000) callbacks armed by connect()'s catch
    gattConnected,         \* device.gatt.connected, per device
    disconnectListener,    \* 'gattserverdisconnected' listener `disconnect` registered, per device
    notifying,             \* notifications started and handleNotifications registered, per device
    connects,              \* the connect() calls in flight: slot -> [pc, device]
    connectCalls,          \* connect() calls made so far
    keepAliveWrites,       \* devices with a heartbeat write awaiting its outcome
    notification,          \* dispatched 'characteristicvaluechanged' events not yet handled
    handledPayload,        \* history: <<payload>> that handleNotifications last classified, or <<>>
    opCodes,               \* useState: CommandType -> opcode byte
    macroCommands,         \* useState<MacroCommand[]>
    edits,                 \* history: edits of the opcode table and of the macro made so far
    casts,                 \* the sendMacro() calls: slot -> its locals and position
    isOpCodeTestMode,      \* useState(false)
    opcodeToTest,          \* useState(0x01)
    probes,                \* the testNextOpCode() calls awaiting sendData: slot -> locals
    activations,           \* times the discovery mode was switched on
    probeFaults,           \* probe writes that failed on a live link
    probeRun,              \* history: testNextOpCode calls made since the mode was switched on
                           \* at probe 0x01 with no call pending; -1 outside such a run
    probeSequential,       \* history: no call of the run was made while another was pending
    logsLen,               \* logs.length
    lastLog,               \* logs[logs.length - 1] without its id, or NoLog
    lastLogId,             \* logs[logs.length - 1].id in units of 1 / RandomRange, or -1
    now,                   \* Date.now(), in ms since the page was loaded
    random,                \* the output the next Math.random() call returns, times RandomRange
    snifferStatus,         \* SnifferPanel: useState<SnifferStatus>
    snifferDeviceRef,      \* SnifferPanel: deviceRef
    subscribedCharsRef,    \* SnifferPanel: subscribedCharsRef.current, entries [device, char]
    snifferListener,       \* 'gattserverdisconnected' listener `stopSniffing` registered, per device
    snifferTimers,         \* pending setTimeout(..., 3000) callbacks armed by startSniffing's catch
    sniffs,                \* the startSniffing() calls in flight: slot -> locals and position
    sniffCalls,            \* startSniffing() calls made so far
    stops,                 \* the stopSniffing() calls in flight: slot -> position in its loop
    subscribeResolved,     \* history: entries whose startNotifications() resolved
    lastSniff              \* history: how the startSniffing() call that ended last ended

\* What no handler of the controller writes.
snifferVars == <<snifferStatus, snifferDeviceRef, subscribedCharsRef, snifferListener,
                 snifferTimers, sniffs, sniffCalls, stops, subscribeResolved, lastSniff>>
envVars == <<hasBluetooth, mounted, snifferVars>>
connVars == <<envVars, connectionStatus, deviceRef, writeCharRef, keepAliveIntervalRef,
              errorTimers, gattConnected, disconnectListener, notifying, connects,
              connectCalls, keepAliveWrites>>
logVars == <<logsLen, lastLog, lastLogId, now, random>>
notifyVars == <<notification, handledPayload>>
macroVars == <<opCodes, macroCommands, edits>>
probeVars == <<isOpCodeTestMode, opcodeToTest, probes, activations, probeFaults, probeRun,
               probeSequential>>
vars == <<connVars, logVars, notifyVars, macroVars, casts, probeVars>>

\* ------------------------------------------------------------------- logs

\* A LogEntry as addLog builds it (lines 40-46).
\* `name` is the spell name interpolated into the message, as code points.
LogEntry(type, message, name, data) ==
    [type |-> type, message |-> message, name |-> name, data |-> data]

\* No entry appended yet.
NoLog == LogEntry("none", "", <<>>, NoData)

\* Math.random() is a generator seeded when the page loads: each call returns the
\* next output of a fixed sequence that is not monotone.  Its outputs are k / RandomRange
\* for k in Randoms; the model's generator steps through Randoms cyclically.
Randoms == {0, 1}
RandomRange == Cardinality(Randoms)
NextRandom(output, calls) == (output + calls) % RandomRange

\* id: Date.now() + Math.random(), in units of 1 / RandomRange.
LogId(time, output) == time * RandomRange + output

\* addLog: setLogs(prev => [...prev, entry]); n entries appended by one task, the last
\* one `entry`, each with an id made of the clock and the generator's next output.
AddLogs(n, entry) ==
    /\ logsLen' = logsLen + n
    /\ lastLog' = entry
    /\ lastLogId' = LogId(now, NextRandom(random, n - 1))
    /\ random' = NextRandom(random, n)
    /\ now' = now

AddLog(type, message, data) == AddLogs(1, LogEntry(type, message, <<>>, data))

\* The clock read by Date.now() advances by a millisecond.
ClockTick ==
    /\ now < MaxClock
    /\ now' = now + 1
    /\ UNCHANGED <<connVars, logsLen, lastLog, lastLogId, random, notifyVars, macroVars, casts,
                   probeVars>>

\* ------------------------------------------------------- connect() in flight

IdleCall == [pc |-> "idle", device |-> Null]

\* Awaits of connect() that the transport rejects when the link of their device drops.
AwaitsOnLink == {"getPrimaryService", "getWriteChar", "getNotifyChar", "startNotifications"}
\* Awaits of connect() that gatt.disconnect() aborts.
AwaitsOnGatt == AwaitsOnLink \cup {"gattConnect"}
\* Every await of connect().
ConnectAwaits == AwaitsOnGatt \cup {"requestDevice", "rejected"}

\* The pending promises of device d among `awaits` are rejected.
RejectCalls(calls, d, awaits) ==
    [s \in Slots |-> IF calls[s].device = d /\ calls[s].pc \in awaits
                     THEN [calls[s] EXCEPT !.pc = "rejected"]
                     ELSE calls[s]]

\* A pending heartbeat write on device d is rejected.
RejectWrites(writes, d) ==
    [writes EXCEPT ![d] = IF @ = "pending" THEN "rejected" ELSE @]

FreeSlot == CHOOSE s \in Slots : connects[s].pc = "idle" /\ \A t \in 1..(s - 1) : connects[t].pc # "idle"

\* ------------------------------------------------------------- keepalive

\* startKeepAlive: clear a stored interval, store a new one.
StartKeepAlive == keepAliveIntervalRef' = TRUE

\* stopKeepAlive leaving the interval as it is.
StopKeepAliveSkipped == keepAliveIntervalRef' = keepAliveIntervalRef

\* stopKeepAlive: clear the stored interval, if any.
StopKeepAlive == keepAliveIntervalRef' = FALSE

\* ------------------------------------------------------------ disconnect()

\* The body of disconnect(), run when the transport is in state (gc, calls, writes):
\* stop the keepalive, drop the listener of deviceRef, gatt.disconnect() if connected,
\* clear both refs, set Disconnected, log.  The await of the synchronous
\* gatt.disconnect() resumes in the same task.
Disconnect(gc, calls, writes) ==
    LET dev == deviceRef
        linkUp == dev # Null /\ gc[dev]
        gc2 == IF linkUp THEN [gc EXCEPT ![dev] = FALSE] ELSE gc
    IN  /\ StopKeepAlive
        /\ disconnectListener' = IF dev # Null
                                 THEN [disconnectListener EXCEPT ![dev] = FALSE]
                                 ELSE disconnectListener
        /\ gattConnected' = gc2
        /\ notifying' = [d \in Devices |-> notifying[d] /\ gc2[d]]
        /\ connects' = IF linkUp THEN RejectCalls(calls, dev, AwaitsOnGatt) ELSE calls
        /\ keepAliveWrites' = IF linkUp THEN RejectWrites(writes, dev) ELSE writes
        /\ deviceRef' = Null
        /\ writeCharRef' = Null
        /\ connectionStatus' = DISCONNECTED
        /\ AddLog("info", "Wand disconnected.", NoData)

\* Click on the connect button while it shows "Disconnect" (isConnected).
ClickDisconnect ==
    /\ mounted
    /\ connectionStatus = CONNECTED
    /\ Disconnect(gattConnected, connects, keepAliveWrites)
    /\ UNCHANGED <<envVars, errorTimers, connectCalls, notifyVars, macroVars, casts, probeVars>>

\* Click on "Disconnect" when gatt.disconnect() (line 98) throws: disconnect() has
\* stopped the keepalive and removed its listener, and nothing after the call runs.
ClickDisconnectThrows ==
    /\ mounted
    /\ connectionStatus = CONNECTED
    /\ deviceRef # Null
    /\ gattConnected[deviceRef]
    /\ StopKeepAlive
    /\ disconnectListener' = [disconnectListener EXCEPT ![deviceRef] = FALSE]
    /\ UNCHANGED <<envVars, connectionStatus, deviceRef, writeCharRef, errorTimers, gattConnected,
                   notifying, connects, connectCalls, keepAliveWrites, logVars, notifyVars,
                   macroVars, casts, probeVars>>

\* connectionStatus in the closure of the unmount effect: the effect has no
\* dependencies, so its cleanup is the one created by the first render.
FirstRenderStatus == DISCONNECTED

\* The App component unmounts: the effect's cleanup calls disconnect() if the
\* connectionStatus of its closure is Connected.
Unmount ==
    /\ mounted
    /\ mounted' = FALSE
    /\ IF FirstRenderStatus = CONNECTED
       THEN Disconnect(gattConnected, connects, keepAliveWrites)
       ELSE UNCHANGED <<connectionStatus, deviceRef, writeCharRef, keepAliveIntervalRef,
                        gattConnected, disconnectListener, notifying, connects, keepAliveWrites,
                        logVars>>
    /\ UNCHANGED <<hasBluetooth, snifferVars, errorTimers, connectCalls, notifyVars, macroVars, casts,
                   probeVars>>

\* The link of device d drops: the transport rejects what is pending on it and
\* dispatches 'gattserverdisconnected' to the listener, if one is registered.
LinkLost(d) ==
    /\ gattConnected[d]
    /\ LET gc == [gattConnected EXCEPT ![d] = FALSE]
           calls == RejectCalls(connects, d, AwaitsOnLink)
           writes == RejectWrites(keepAliveWrites, d)
       IN  IF disconnectListener[d]
           THEN Disconnect(gc, calls, writes)
           ELSE /\ gattConnected' = gc
                /\ notifying' = [notifying EXCEPT ![d] = FALSE]
                /\ connects' = calls
                /\ keepAliveWrites' = writes
                /\ UNCHANGED <<connectionStatus, deviceRef, writeCharRef,
                               keepAliveIntervalRef, disconnectListener, logVars>>
    /\ UNCHANGED <<envVars, errorTimers, connectCalls, notifyVars, macroVars, casts, probeVars>>

\* The setInterval callback of startKeepAlive fires: write the heartbeat if the
\* write characteristic is bound.
KeepAliveTick ==
    /\ keepAliveIntervalRef
    /\ IF writeCharRef # Null
       THEN /\ keepAliveWrites[writeCharRef] = "none"
            /\ keepAliveWrites' = [keepAliveWrites EXCEPT ![writeCharRef] =
                                     IF gattConnected[writeCharRef] THEN "pending" ELSE "rejected"]
       ELSE UNCHANGED keepAliveWrites
    /\ UNCHANGED <<envVars, connectionStatus, deviceRef, writeCharRef, keepAliveIntervalRef,
                   errorTimers, gattConnected, disconnectListener, notifying, connects,
                   connectCalls, logVars, notifyVars, macroVars, casts, probeVars>>

\* The heartbeat write resolves.
KeepAliveWritten(d) ==
    /\ keepAliveWrites[d] = "pending"
    /\ keepAliveWrites' = [keepAliveWrites EXCEPT ![d] = "none"]
    /\ UNCHANGED <<envVars, connectionStatus, deviceRef, writeCharRef, keepAliveIntervalRef,
                   errorTimers, gattConnected, disconnectListener, notifying, connects,
                   connectCalls, logVars, notifyVars, macroVars, casts, probeVars>>

\* The heartbeat write rejects: the catch calls disconnect().
KeepAliveFailed(d) ==
    /\ keepAliveWrites[d] \in {"pending", "rejected"}
    /\ Disconnect(gattConnected, connects, [keepAliveWrites EXCEPT ![d] = "none"])
    /\ UNCHANGED <<envVars, errorTimers, connectCalls, notifyVars, macroVars, casts, probeVars>>

\* --------------------------------------------------------------- connect()

\* Click on the connect button while it shows "Connect Wand": the button is disabled
\* only while the rendered status is Connecting, and calls onDisconnect when Connected.
\* connect() runs to its first await (requestDevice).
ClickConnect ==
    /\ mounted
    /\ connectionStatus \in {DISCONNECTED, ERROR}
    /\ connectCalls < MaxConnectCalls
    /\ \E s \in Slots : connects[s].pc = "idle"
    /\ connectCalls' = connectCalls + 1
    /\ IF ~hasBluetooth
       THEN /\ AddLog("error", "Web Bluetooth API is not available on this browser.", NoData)
            /\ UNCHANGED <<connectionStatus, connects>>
       ELSE /\ connectionStatus' = CONNECTING
            /\ AddLog("info", "Scanning for wand...", NoData)
            /\ connects' = [connects EXCEPT ![FreeSlot] = [pc |-> "requestDevice", device |-> Null]]
    /\ UNCHANGED <<envVars, deviceRef, writeCharRef, keepAliveIntervalRef, errorTimers,
                   gattConnected, disconnectListener, notifying, keepAliveWrites, notifyVars, macroVars, casts, probeVars>>

\* requestDevice resolves with device d: store it, register the disconnect listener,
\* call gatt.connect().
DeviceChosen(s, d) ==
    /\ connects[s].pc = "requestDevice"
    /\ deviceRef' = d
    /\ disconnectListener' = [disconnectListener EXCEPT ![d] = TRUE]
    /\ AddLog("info", "Connecting to GATT server...", NoData)
    /\ connects' = [connects EXCEPT ![s] = [pc |-> "gattConnect", device |-> d]]
    /\ UNCHANGED <<envVars, connectionStatus, writeCharRef, keepAliveIntervalRef, errorTimers,
                   gattConnected, notifying, connectCalls, keepAliveWrites, notifyVars, macroVars, casts, probeVars>>

\* gatt.connect() resolves: the link is up; call getPrimaryService.
GattConnected(s) ==
    /\ connects[s].pc = "gattConnect"
    /\ gattConnected' = [gattConnected EXCEPT ![connects[s].device] = TRUE]
    /\ AddLog("info", "Getting Primary Service...", NoData)
    /\ connects' = [connects EXCEPT ![s].pc = "getPrimaryService"]
    /\ UNCHANGED <<envVars, connectionStatus, deviceRef, writeCharRef, keepAliveIntervalRef,
                   errorTimers, disconnectListener, notifying, connectCalls, keepAliveWrites,
                   notifyVars, macroVars, casts, probeVars>>

\* getPrimaryService resolves: call getCharacteristic(WRITE_UUID).
ServiceFound(s) ==
    /\ connects[s].pc = "getPrimaryService"
    /\ gattConnected[connects[s].device]
    /\ AddLog("info", "Getting Characteristics...", NoData)
    /\ connects' = [connects EXCEPT ![s].pc = "getWriteChar"]
    /\ UNCHANGED <<envVars, connectionStatus, deviceRef, writeCharRef, keepAliveIntervalRef,
                   errorTimers, gattConnected, disconnectListener, notifying, connectCalls,
                   keepAliveWrites, notifyVars, macroVars, casts, probeVars>>

\* getCharacteristic(WRITE_UUID) resolves: call getCharacteristic(NOTIFY_UUID).
WriteCharFound(s) ==
    /\ connects[s].pc = "getWriteChar"
    /\ gattConnected[connects[s].device]
    /\ connects' = [connects EXCEPT ![s].pc = "getNotifyChar"]
    /\ UNCHANGED <<envVars, connectionStatus, deviceRef, writeCharRef, keepAliveIntervalRef,
                   errorTimers, gattConnected, disconnectListener, notifying, connectCalls,
                   keepAliveWrites, logVars, notifyVars, macroVars, casts, probeVars>>

\* getCharacteristic(NOTIFY_UUID) resolves: bind the write characteristic, call
\* startNotifications.
NotifyCharFound(s) ==
    /\ connects[s].pc = "getNotifyChar"
    /\ gattConnected[connects[s].device]
    /\ writeCharRef' = connects[s].device
    /\ AddLog("info", "Starting notifications...", NoData)
    /\ connects' = [connects EXCEPT ![s].pc = "startNotifications"]
    /\ UNCHANGED <<envVars, connectionStatus, deviceRef, keepAliveIntervalRef, errorTimers,
                   gattConnected, disconnectListener, notifying, connectCalls, keepAliveWrites,
                   notifyVars, macroVars, casts, probeVars>>

\* startNotifications resolves: register handleNotifications, start the keepalive,
\* set Connected.
NotificationsStarted(s) ==
    /\ connects[s].pc = "startNotifications"
    /\ gattConnected[connects[s].device]
    /\ notifying' = [notifying EXCEPT ![connects[s].device] = TRUE]
    /\ StartKeepAlive
    /\ connectionStatus' = CONNECTED
    /\ AddLog("info", "Successfully connected. Wand is active!", NoData)
    /\ connects' = [connects EXCEPT ![s] = IdleCall]
    /\ UNCHANGED <<envVars, deviceRef, writeCharRef, errorTimers, gattConnected,
                   disconnectListener, connectCalls, keepAliveWrites, notifyVars, macroVars, casts, probeVars>>

\* An awaited promise of connect() rejects (the user cancels the chooser, no device is
\* found, the device has no GATT server, a GATT operation fails, or the link dropped):
\* the catch logs, sets Error and arms the 3 s timeout.
ConnectFailed(s) ==
    /\ connects[s].pc \in ConnectAwaits
    /\ errorTimers < MaxErrorTimers
    /\ AddLog("error", "Connection failed", NoData)
    /\ connectionStatus' = ERROR
    /\ errorTimers' = errorTimers + 1
    /\ connects' = [connects EXCEPT ![s] = IdleCall]
    /\ UNCHANGED <<envVars, deviceRef, writeCharRef, keepAliveIntervalRef, gattConnected,
                   disconnectListener, notifying, connectCalls, keepAliveWrites, notifyVars, macroVars, casts, probeVars>>

\* The timeout callback leaving the status as it is.
ErrorTimeoutKeepsStatus ==
    /\ errorTimers > 0
    /\ errorTimers' = errorTimers - 1
    /\ UNCHANGED <<envVars, connectionStatus, deviceRef, writeCharRef, keepAliveIntervalRef,
                   gattConnected, disconnectListener, notifying, connects, connectCalls,
                   keepAliveWrites, logVars, notifyVars, macroVars, casts, probeVars>>

\* A timeout armed by connect()'s catch fires: setConnectionStatus(DISCONNECTED).
ErrorTimeout ==
    /\ errorTimers > 0
    /\ errorTimers' = errorTimers - 1
    /\ connectionStatus' = DISCONNECTED
    /\ UNCHANGED <<envVars, deviceRef, writeCharRef, keepAliveIntervalRef, gattConnected,
                   disconnectListener, notifying, connects, connectCalls, keepAliveWrites,
                   logVars, notifyVars, macroVars, casts, probeVars>>

\* ----------------------------------------------------- handleNotifications

\* Bytes of the inbound payloads drawn: NUL, line feed, space, "f".
PayloadBytes == {0, 10, 32, 102}
\* 00 00 00 00 "FIRE", and a two-byte payload.
FirePayload == <<0, 0, 0, 0, 70, 73, 82, 69>>
ShortPayload == <<1, 2>>
Payloads == UNION {[1..n -> PayloadBytes] : n \in 0..MaxPayloadLen} \cup {FirePayload, ShortPayload}

HexDigits == <<"0", "1", "2", "3", "4", "5", "6", "7", "8", "9", "a", "b", "c", "d", "e", "f">>

\* b.toString(16).padStart(2, '0') for a byte b.
ToHex2(b) == HexDigits[(b \div 16) + 1] \o HexDigits[(b % 16) + 1]

\* b.toString(16).toUpperCase().padStart(2, '0') for 0 <= b < 256.
UpperHexDigits == <<"0", "1", "2", "3", "4", "5", "6", "7", "8", "9", "A", "B", "C", "D", "E", "F">>
ToUpperHex2(b) == UpperHexDigits[(b \div 16) + 1] \o UpperHexDigits[(b % 16) + 1]

\* Array.from(data).map(b => ...).join(sep)
RECURSIVE JoinHex(_, _)
JoinHex(data, sep) ==
    IF data = <<>> THEN ""
    ELSE IF Len(data) = 1 THEN ToHex2(data[1])
    ELSE ToHex2(data[1]) \o sep \o JoinHex(Tail(data), sep)

\* data.slice(start)
SliceFrom(data, start) == SubSeq(data, start + 1, Len(data))

\* new TextDecoder().decode(bytes), as code points, for bytes that are ASCII or can
\* occur in no UTF-8 sequence (0xF8..0xFF, each replaced by U+FFFD).
TextDecode(bytes) == [i \in 1..Len(bytes) |-> IF bytes[i] < 128 THEN bytes[i] ELSE 65533]

\* WhiteSpace and LineTerminator code points of String.prototype.trim.
JsWhiteSpace == {9, 10, 11, 12, 13, 32, 160, 5760, 8232, 8233, 8239, 8287, 12288, 65279}
                    \cup 8192..8202

\* String.prototype.trim
RECURSIVE TrimStart(_)
TrimStart(str) == IF str # <<>> /\ Head(str) \in JsWhiteSpace THEN TrimStart(Tail(str)) ELSE str
RECURSIVE TrimEnd(_)
TrimEnd(str) ==
    IF str # <<>> /\ str[Len(str)] \in JsWhiteSpace THEN TrimEnd(SubSeq(str, 1, Len(str) - 1)) ELSE str
Trim(str) == TrimEnd(TrimStart(str))

\* str.replace(/\u0000/g, '')
RemoveNul(str) == SelectSeq(str, LAMBDA c : c # 0)

\* String.prototype.toUpperCase on the code points TextDecode yields.
ToUpperCase(str) == [i \in 1..Len(str) |-> IF str[i] \in 97..122 THEN str[i] - 32 ELSE str[i]]

\* The spell name handleNotifications extracts (line 60).
SpellName(data) == RemoveNul(Trim(TextDecode(SliceFrom(data, SPELL_DATA_HEADER_LEN))))

\* The log entry handleNotifications appends for the payload `data`.
Classify(data) ==
    LET rawHex == JoinHex(data, "")
    IN  IF Len(data) >= SPELL_MIN_LEN /\ SpellName(data) # <<>>
        THEN LogEntry("spell", "Spell Detected: ", ToUpperCase(SpellName(data)), "RAW: " \o rawHex)
        ELSE LogEntry("raw", "Raw Wand Data", <<>>, rawHex)

\* 'characteristicvaluechanged' is dispatched: return when the characteristic has no
\* value, else classify the payload and log it.
HandleNotifications ==
    /\ notification # <<>>
    /\ notification' = Tail(notification)
    /\ IF ~Head(notification).hasValue
       THEN UNCHANGED <<handledPayload, logVars>>
       ELSE /\ handledPayload' = <<Head(notification).data>>
            /\ AddLogs(1, Classify(Head(notification).data))
    /\ UNCHANGED <<connVars, macroVars, casts, probeVars>>

\* ------------------------------------------------------------ macro encoding

\* enum CommandType
CLEAR_LEDS == "ClearLeds"
BUZZ == "Buzz"
CHANGE_LED == "ChangeLed"
CommandType == {CLEAR_LEDS, BUZZ, CHANGE_LED}

\* A MacroCommand; the fields a variant does not have are left at 0 and "".
ClearLedsCommand == [type |-> CLEAR_LEDS, groupId |-> 0, hexColor |-> "", duration |-> 0]
BuzzCommand(duration) == [type |-> BUZZ, groupId |-> 0, hexColor |-> "", duration |-> duration]
ChangeLedCommand(groupId, hexColor, duration) ==
    [type |-> CHANGE_LED, groupId |-> groupId, hexColor |-> hexColor, duration |-> duration]

\* The command addCommand(type) appends (ControlPanel).
NewCommand(type) ==
    CASE type = CLEAR_LEDS -> ClearLedsCommand
      [] type = BUZZ -> BuzzCommand(250)
      [] type = CHANGE_LED -> ChangeLedCommand(0, "0000FF", 500)

\* The initial opcode table.
DefaultOpCodes == [t \in CommandType |->
    CASE t = CLEAR_LEDS -> 170 [] t = BUZZ -> 187 [] t = CHANGE_LED -> 204]

\* a & b for an int32 a and a mask 0 <= b < 2^31: the AND of the two's complement
\* bits, bit by bit (a % 2 and floored a \div 2 walk the two's complement of a), up to
\* the highest bit of the mask.
RECURSIVE AndBits(_, _, _)
AndBits(a, b, n) ==
    IF n = 0 \/ b = 0 THEN 0
    ELSE (IF a % 2 = 1 /\ b % 2 = 1 THEN 1 ELSE 0) + 2 * AndBits(a \div 2, b \div 2, n - 1)
BitAnd(a, b) == AndBits(a, b, 32)

\* a >> k for an int32 a, sign-propagating.
ShiftRight(a, k) == a \div (2 ^ k)

\* Math.min
MathMin(a, b) == IF a < b THEN a ELSE b

HexDigitValue(c) ==
    CASE c = "0" -> 0 [] c = "1" -> 1 [] c = "2" -> 2 [] c = "3" -> 3 [] c = "4" -> 4
      [] c = "5" -> 5 [] c = "6" -> 6 [] c = "7" -> 7 [] c = "8" -> 8 [] c = "9" -> 9
      [] c \in {"a", "A"} -> 10 [] c \in {"b", "B"} -> 11 [] c \in {"c", "C"} -> 12
      [] c \in {"d", "D"} -> 13 [] c \in {"e", "E"} -> 14 [] c \in {"f", "F"} -> 15

\* parseInt(str, 16) of two hex digits.
ParseHex2(str) == 16 * HexDigitValue(SubSeq(str, 1, 1)) + HexDigitValue(SubSeq(str, 2, 2))

\* The value of a character as a digit, 36 for a character that is no digit.
DigitValue(c) ==
    CASE c \in {"a", "b", "c", "d", "e", "f", "A", "B", "C", "D", "E", "F"} \cup
              {"0", "1", "2", "3", "4", "5", "6", "7", "8", "9"} -> HexDigitValue(c)
      [] OTHER -> 36

\* str.substring(start), str.startsWith(prefix)
Substring(str, start) == SubSeq(str, start + 1, Len(str))
StartsWith(str, prefix) == Len(str) >= Len(prefix) /\ SubSeq(str, 1, Len(prefix)) = prefix

\* A number or NaN.
NaN == [nan |-> TRUE, value |-> 0]
Number(value) == [nan |-> FALSE, value |-> value]

\* The value of the longest prefix of `str` made of digits of `radix`, after the digits
\* read so far gave `acc` (`seen`: at least one digit was read); NaN without any digit.
RECURSIVE ParseDigits(_, _, _, _)
ParseDigits(str, radix, acc, seen) ==
    IF Len(str) > 0 /\ DigitValue(SubSeq(str, 1, 1)) < radix
    THEN ParseDigits(Substring(str, 1), radix, acc * radix + DigitValue(SubSeq(str, 1, 1)), TRUE)
    ELSE IF seen THEN Number(acc) ELSE NaN

RECURSIVE SkipWhiteSpace(_)
SkipWhiteSpace(str) ==
    IF Len(str) > 0 /\ SubSeq(str, 1, 1) \in {" ", "\t"} THEN SkipWhiteSpace(Substring(str, 1)) ELSE str

\* parseInt(str, radix) for radix 10 and 16, and parseInt(str) as radix 0: leading
\* white space, a sign, a 0x prefix (radix 16 or none given), then the longest run of
\* digits; what follows the digits is ignored.
ParseInt(str, radix) ==
    LET s1 == SkipWhiteSpace(str)
        negative == StartsWith(s1, "-")
        s2 == IF negative \/ StartsWith(s1, "+") THEN Substring(s1, 1) ELSE s1
        prefixed == radix \in {0, 16} /\ (StartsWith(s2, "0x") \/ StartsWith(s2, "0X"))
        s3 == IF prefixed THEN Substring(s2, 2) ELSE s2
        r == IF prefixed \/ radix = 16 THEN 16 ELSE 10
        parsed == ParseDigits(s3, r, 0, FALSE)
    IN  IF parsed.nan THEN NaN ELSE Number(IF negative THEN 0 - parsed.value ELSE parsed.value)

\* PushCommand with the duration bytes pushed high byte first.
PushCommandBigEndian(cmd, table) ==
    CASE cmd.type = CLEAR_LEDS -> <<table[CLEAR_LEDS]>>
      [] cmd.type = BUZZ ->
            LET durationBuzz == MathMin(cmd.duration, 32767)
            IN  <<table[BUZZ], BitAnd(ShiftRight(durationBuzz, 8), 255), BitAnd(durationBuzz, 255)>>
      [] cmd.type = CHANGE_LED ->
            LET r == ParseHex2(SubSeq(cmd.hexColor, 1, 2))
                g == ParseHex2(SubSeq(cmd.hexColor, 3, 4))
                b == ParseHex2(SubSeq(cmd.hexColor, 5, 6))
                durationLed == MathMin(cmd.duration, 32767)
            IN  <<table[CHANGE_LED], cmd.groupId, r, g, b,
                  BitAnd(ShiftRight(durationLed, 8), 255), BitAnd(durationLed, 255)>>

\* One iteration of sendMacro's for-of loop: the bytes pushed for cmd (lines 173-190).
PushCommand(cmd, table) ==
    CASE cmd.type = CLEAR_LEDS -> <<table[CLEAR_LEDS]>>
      [] cmd.type = BUZZ ->
            LET durationBuzz == MathMin(cmd.duration, 32767)
            IN  <<table[BUZZ], BitAnd(durationBuzz, 255), BitAnd(ShiftRight(durationBuzz, 8), 255)>>
      [] cmd.type = CHANGE_LED ->
            LET r == ParseHex2(SubSeq(cmd.hexColor, 1, 2))
                g == ParseHex2(SubSeq(cmd.hexColor, 3, 4))
                b == ParseHex2(SubSeq(cmd.hexColor, 5, 6))
                durationLed == MathMin(cmd.duration, 32767)
            IN  <<table[CHANGE_LED], cmd.groupId, r, g, b,
                  BitAnd(durationLed, 255), BitAnd(ShiftRight(durationLed, 8), 255)>>

\* fullCommandBytes after the loop over `macro` (lines 171-191).
RECURSIVE FullCommandBytes(_, _)
FullCommandBytes(macro, table) ==
    IF macro = <<>> THEN <<>>
    ELSE PushCommand(Head(macro), table) \o FullCommandBytes(Tail(macro), table)

\* Chunk taken from the macro and table as they are when the chunk is sent.
ChunkOfCurrentState(bytes, i) ==
    SubSeq(FullCommandBytes(macroCommands, opCodes), i + 1,
           MathMin(i + MTU_PAYLOAD_SIZE, Len(FullCommandBytes(macroCommands, opCodes))))

\* Chunk with a slice that ends one byte late.
ChunkOneTooLong(bytes, i) ==
    LET end == MathMin(i + MTU_PAYLOAD_SIZE + 1, Len(bytes))
    IN  [k \in 1..(end - i) |-> bytes[i + k] % 256]

\* fullCommandBytes.slice(i, i + MTU_PAYLOAD_SIZE) as a Uint8Array.
Chunk(bytes, i) ==
    LET end == MathMin(i + MTU_PAYLOAD_SIZE, Len(bytes))
    IN  [k \in 1..(end - i) |-> bytes[i + k] % 256]

\* ---------------------------------------------------------------- sendMacro

CastSlots == 1..MaxCastCalls

IdleCast == [pc |-> "idle", macro |-> <<>>, table |-> DefaultOpCodes, bytes |-> <<>>, i |-> 0,
             written |-> <<>>, unsent |-> 0, device |-> Null]

\* sendData(chunk) called by cast `c` at offset i: without a write characteristic it
\* logs and returns, and the loop goes on to its delay; else the write is issued and awaited.
\* `extra` entries were logged earlier in the same task, `entry` being the last of them.
CastSendData(c, cast, extra, entry) ==
    IF writeCharRef = Null
    THEN /\ AddLogs(extra + 1, LogEntry("error", "Cannot send data. Write characteristic not available.", <<>>, NoData))
         /\ casts' = [casts EXCEPT ![c] = [cast EXCEPT !.pc = "delay", !.unsent = @ + 1]]
    ELSE /\ IF extra = 0 THEN UNCHANGED logVars ELSE AddLogs(extra, entry)
         /\ casts' = [casts EXCEPT ![c] = [cast EXCEPT !.pc = "writing",
                                                        !.written = Append(@, Chunk(cast.bytes, cast.i)),
                                                        !.device = writeCharRef]]

\* Click on "Cast Macro" (enabled when Connected, not in discovery mode, macro not
\* empty): sendMacro encodes, logs the bytes and sends the first chunk.
ClickCast(c) ==
    /\ mounted
    /\ connectionStatus = CONNECTED
    /\ ~isOpCodeTestMode
    /\ macroCommands # <<>>
    /\ casts[c].pc = "idle"
    /\ \A b \in 1..(c - 1) : casts[b].pc # "idle"
    /\ LET bytes == FullCommandBytes(macroCommands, opCodes)
           cast == [IdleCast EXCEPT !.macro = macroCommands, !.table = opCodes, !.bytes = bytes]
       IN  CastSendData(c, cast, 1,
                        LogEntry("command", "Sending VFX Macro...", <<>>, "Bytes: " \o JoinHex(bytes, " ")))
    /\ UNCHANGED <<connVars, notifyVars, macroVars, probeVars>>

\* The chunk write resolves: sendData returns, the 20 ms delay is armed.
CastWritten(c) ==
    /\ casts[c].pc = "writing"
    /\ gattConnected[casts[c].device]
    /\ casts' = [casts EXCEPT ![c].pc = "delay"]
    /\ UNCHANGED <<connVars, notifyVars, macroVars, probeVars, logVars>>

\* The chunk write rejects: sendData logs the failure and returns, the delay is armed.
CastWriteFailed(c) ==
    /\ casts[c].pc = "writing"
    /\ AddLog("error", "Failed to send data", NoData)
    /\ casts' = [casts EXCEPT ![c].pc = "delay"]
    /\ UNCHANGED <<connVars, notifyVars, macroVars, probeVars>>

\* The delay elapses: i += MTU_PAYLOAD_SIZE and the loop sends the next chunk or ends.
CastDelayElapsed(c) ==
    /\ casts[c].pc = "delay"
    /\ LET cast == [casts[c] EXCEPT !.i = @ + MTU_PAYLOAD_SIZE]
       IN  IF cast.i < Len(cast.bytes)
           THEN CastSendData(c, cast, 0, NoLog)
           ELSE /\ casts' = [casts EXCEPT ![c] = [cast EXCEPT !.pc = "done"]]
                /\ UNCHANGED logVars
    /\ UNCHANGED <<connVars, notifyVars, macroVars, probeVars>>

\* ------------------------------------------------------------------ edits

\* The acceptance test of OpCodeInput without its upper bound.
OpCodeAcceptedUnbounded(intVal) == ~intVal.nan /\ intVal.value >= 0

\* !isNaN(intVal) && intVal >= 0 && intVal <= 255
OpCodeAccepted(intVal) == ~intVal.nan /\ intVal.value >= 0 /\ intVal.value <= 255

\* The number OpCodeInput parses from the text of its field.
OpCodeParsed(text) == ParseInt(IF StartsWith(text, "0x") THEN Substring(text, 2) ELSE text, 16)

\* Texts typed or pasted into an opcode field, into a duration field (a number input
\* hands on "" for what is no number), and values picked in a color input.
OpCodeTexts == {"0x00", "0xFF", "0x100", "0x1G", "zz", "", "-1", "0x"}
DurationTexts == {"", "-1", "40000"}
ColorValues == {"#12ab9c"}

\* onChange of an opcode field: the table entry is replaced if the parsed value is
\* accepted, else nothing happens.
EditOpCode(kind, text) ==
    /\ mounted
    /\ edits < MaxEdits
    /\ edits' = edits + 1
    /\ opCodes' = IF OpCodeAccepted(OpCodeParsed(text))
                  THEN [opCodes EXCEPT ![kind] = OpCodeParsed(text).value]
                  ELSE opCodes
    /\ UNCHANGED <<connVars, logVars, notifyVars, macroCommands, casts, probeVars>>

\* addCommand(type), from the Add menu.
AddCommand(type) ==
    /\ mounted
    /\ edits < MaxEdits
    /\ edits' = edits + 1
    /\ macroCommands' = Append(macroCommands, NewCommand(type))
    /\ UNCHANGED <<connVars, logVars, notifyVars, opCodes, casts, probeVars>>

\* removeCommand of the command at position i (the command ids are distinct).
RemoveCommand(i) ==
    /\ mounted
    /\ edits < MaxEdits
    /\ i \in 1..Len(macroCommands)
    /\ edits' = edits + 1
    /\ macroCommands' = SubSeq(macroCommands, 1, i - 1) \o SubSeq(macroCommands, i + 1, Len(macroCommands))
    /\ UNCHANGED <<connVars, logVars, notifyVars, opCodes, casts, probeVars>>

\* onChange of the duration field of command i: updateCommand(id, {duration: parseInt(text) || 0}).
UpdateDuration(i, text) ==
    /\ mounted
    /\ edits < MaxEdits
    /\ i \in 1..Len(macroCommands)
    /\ macroCommands[i].type \in {BUZZ, CHANGE_LED}
    /\ edits' = edits + 1
    /\ LET parsed == ParseInt(text, 0)
           duration == IF parsed.nan THEN 0 ELSE parsed.value
       IN  macroCommands' = [macroCommands EXCEPT ![i].duration = duration]
    /\ UNCHANGED <<connVars, logVars, notifyVars, opCodes, casts, probeVars>>

\* onChange of the color input of command i: updateCommand(id, {hexColor: value.substring(1)}).
UpdateColor(i, value) ==
    /\ mounted
    /\ edits < MaxEdits
    /\ i \in 1..Len(macroCommands)
    /\ macroCommands[i].type = CHANGE_LED
    /\ edits' = edits + 1
    /\ macroCommands' = [macroCommands EXCEPT ![i].hexColor = Substring(value, 1)]
    /\ UNCHANGED <<connVars, logVars, notifyVars, opCodes, casts, probeVars>>

\* ---------------------------------------------------------- opcode discovery

ProbeSlots == 1..MaxProbesInFlight

\* `step` is the history of a call: its number within the run, 0 outside a run.
IdleProbe == [pc |-> "idle", opcodeToTest |-> 0, device |-> Null, step |-> 0]

ProbesInFlight == {p \in ProbeSlots : probes[p].pc # "idle"}

\* Click on the discovery-mode button (enabled while Connected):
\* setIsOpCodeTestMode(!isOpCodeTestMode).
ToggleTestMode ==
    /\ mounted
    /\ connectionStatus = CONNECTED
    /\ isOpCodeTestMode' = ~isOpCodeTestMode
    /\ IF isOpCodeTestMode
       THEN /\ probeRun' = -1
            /\ UNCHANGED <<activations, probeSequential>>
       ELSE /\ activations < MaxActivations
            /\ activations' = activations + 1
            /\ probeRun' = IF opcodeToTest = 1 /\ ProbesInFlight = {} THEN 0 ELSE -1
            /\ probeSequential' = TRUE
    /\ UNCHANGED <<connVars, notifyVars, macroVars, casts, logVars, opcodeToTest, probes, probeFaults>>

\* The scan-end test with the bound one too low, and one too high.
ScanFinishedEarly(opcode) == opcode >= 255
ScanFinishedLate(opcode) == opcode > 256

\* opcodeToTest > 0xFF
ScanFinished(opcode) == opcode > 255

\* setOpcodeToTest(prev => prev + 1)
NextOpcode(prev) == prev + 1

\* Click on "Send & Test Next OpCode" (rendered while the mode is active):
\* testNextOpCode with the opcodeToTest of the current render.  Past 0xFF it ends the
\* scan; else it logs and calls sendData with the single byte, which without a write
\* characteristic logs, returns, and lets the counter be incremented at once.
ClickTestNext(p) ==
    /\ mounted
    /\ isOpCodeTestMode
    /\ probes[p].pc = "idle"
    /\ \A q \in 1..(p - 1) : probes[q].pc # "idle"
    /\ \A q \in ProbesInFlight : opcodeToTest - probes[q].opcodeToTest < MaxProbeLag
    /\ probeRun' = IF probeRun >= 0 THEN probeRun + 1 ELSE -1
    /\ probeSequential' = (probeSequential /\ ProbesInFlight = {})
    /\ IF ScanFinished(opcodeToTest)
       THEN /\ AddLog("info", "OpCode testing finished.", NoData)
            /\ opcodeToTest' = 1
            /\ isOpCodeTestMode' = FALSE
            /\ UNCHANGED probes
       ELSE IF writeCharRef = Null
       THEN /\ AddLogs(2, LogEntry("error", "Cannot send data. Write characteristic not available.", <<>>, NoData))
            /\ opcodeToTest' = NextOpcode(opcodeToTest)
            /\ UNCHANGED <<isOpCodeTestMode, probes>>
       ELSE /\ AddLog("command", "Testing OpCode 0x" \o ToUpperHex2(opcodeToTest), NoData)
            /\ probes' = [probes EXCEPT ![p] = [pc |-> "writing", opcodeToTest |-> opcodeToTest,
                                                 device |-> writeCharRef,
                                                 step |-> IF probeRun >= 0 THEN probeRun + 1 ELSE 0]]
            /\ UNCHANGED <<isOpCodeTestMode, opcodeToTest>>
    /\ UNCHANGED <<connVars, notifyVars, macroVars, casts, activations, probeFaults>>

\* The probe write resolves: sendData returns and the counter is incremented.
ProbeWritten(p) ==
    /\ probes[p].pc = "writing"
    /\ gattConnected[probes[p].device]
    /\ opcodeToTest' = NextOpcode(opcodeToTest)
    /\ probes' = [probes EXCEPT ![p] = IdleProbe]
    /\ UNCHANGED <<connVars, notifyVars, macroVars, casts, logVars, isOpCodeTestMode, activations,
                   probeFaults, probeRun, probeSequential>>

\* The probe write rejects: sendData logs the failure and returns; the counter is
\* incremented all the same.
ProbeWriteFailed(p) ==
    /\ probes[p].pc = "writing"
    /\ gattConnected[probes[p].device] => probeFaults < MaxProbeFaults
    /\ probeFaults' = IF gattConnected[probes[p].device] THEN probeFaults + 1 ELSE probeFaults
    /\ AddLog("error", "Failed to send data", NoData)
    /\ opcodeToTest' = NextOpcode(opcodeToTest)
    /\ probes' = [probes EXCEPT ![p] = IdleProbe]
    /\ UNCHANGED <<connVars, notifyVars, macroVars, casts, isOpCodeTestMode, activations, probeRun,
                   probeSequential>>

\* ---------------------------------------------------------------- sniffer

\* type SnifferStatus
SnifferStatus == {"Disconnected", "Scanning", "Connecting", "Listening", "Error"}

PROBLEMATIC_UUIDS == {"00002a05-0000-1000-8000-00805f9b34fb"}

\* A characteristic as the transport describes it: its uuid and the two properties
\* startSniffing reads.
Characteristic(uuid, notify, indicate) == [uuid |-> uuid, notify |-> notify, indicate |-> indicate]

ServiceChanged == Characteristic("00002a05-0000-1000-8000-00805f9b34fb", FALSE, TRUE)
BatteryLevel == Characteristic("00002a19-0000-1000-8000-00805f9b34fb", TRUE, FALSE)
WandWrite == Characteristic("57420002-587e-48a0-974c-544d6163c577", FALSE, FALSE)
WandNotify == Characteristic("57420003-587e-48a0-974c-544d6163c577", TRUE, FALSE)

\* What getPrimaryServices() and getCharacteristics() can return: the services of a
\* wand, each the sequence of its characteristics.
Layouts ==
    { << <<ServiceChanged>>, <<BatteryLevel>>, <<WandWrite, WandNotify>> >>,
      << <<ServiceChanged>>, <<WandWrite>> >>,
      << <<WandNotify, WandWrite>> >> }

\* The filter of startSniffing without its denylist test.
SubscribesDenylisted(char) == char.notify \/ char.indicate

\* (props.notify || props.indicate) && !PROBLEMATIC_UUIDS.has(char.uuid)
Subscribes(char) == (char.notify \/ char.indicate) /\ char.uuid \notin PROBLEMATIC_UUIDS

\* The test at the end of the enumeration passing with no subscription.
ListensWithNone(count) == count >= 0

\* notifyCharsCount > 0
ListensWith(count) == count > 0

SniffSlots == 1..MaxSniffsInFlight
StopSlots == 1..MaxStopsInFlight

\* A startSniffing() call: its device, the services it enumerates, the service and
\* characteristic its loops are at, notifyCharsCount, and two facts about it: the
\* subscribe attempts that failed, and whether the link went down since it connected
\* (its GATT objects are then invalid and every call on them rejects).
IdleSniff == [pc |-> "idle", device |-> Null, services |-> <<>>, svc |-> 0, chr |-> 0,
              count |-> 0, failed |-> 0, stale |-> FALSE]

\* A stopSniffing() call awaiting stopNotifications() of the k-th element of the array
\* its loop iterates: subscribedCharsRef.current while `live`, else `arr`, the array it
\* started on, which another stopSniffing() has replaced in the ref.
IdleStop == [pc |-> "idle", k |-> 0, live |-> TRUE, arr |-> <<>>]

NoSniff == [kind |-> "none", count |-> 0, failed |-> 0]

SnifferIdle ==
    /\ snifferStatus = "Disconnected"
    /\ snifferDeviceRef = Null
    /\ subscribedCharsRef = <<>>
    /\ snifferListener = [d \in Devices |-> FALSE]
    /\ snifferTimers = 0
    /\ sniffs = [s \in SniffSlots |-> IdleSniff]
    /\ sniffCalls = 0
    /\ stops = [t \in StopSlots |-> IdleStop]
    /\ subscribeResolved = {}
    /\ lastSniff = NoSniff

\* What the sniffer's handlers never write.
controllerVars == <<hasBluetooth, mounted, connectionStatus, deviceRef, writeCharRef,
                    keepAliveIntervalRef, errorTimers, disconnectListener, notifying, connects,
                    connectCalls, keepAliveWrites, logVars, notifyVars, macroVars, casts, probeVars>>

FreeSniff == CHOOSE s \in SniffSlots : sniffs[s].pc = "idle" /\ \A t \in 1..(s - 1) : sniffs[t].pc # "idle"
FreeStop == CHOOSE t \in StopSlots : stops[t].pc = "idle" /\ \A u \in 1..(t - 1) : stops[u].pc # "idle"

\* The link of device d went down: the GATT objects of the calls on it are invalid.
StaleCalls(calls, d) ==
    [s \in SniffSlots |-> IF calls[s].device = d /\ calls[s].pc # "idle"
                          THEN [calls[s] EXCEPT !.stale = TRUE]
                          ELSE calls[s]]

\* Lines 63-70 of stopSniffing, run when the transport is in state (calls, gc) and the
\* ref holds `subscribed`: replace the array, gatt.disconnect() if connected, clear the
\* device, set Disconnected.  A stopSniffing() still iterating the replaced array keeps it.
StopFinish(stopCalls, calls, subscribed, gc) ==
    LET dev == snifferDeviceRef
        linkUp == dev # Null /\ gc[dev]
    IN  /\ subscribedCharsRef' = <<>>
        /\ stops' = [t \in StopSlots |->
                        IF stopCalls[t].pc # "idle" /\ stopCalls[t].live
                        THEN [stopCalls[t] EXCEPT !.live = FALSE, !.arr = subscribed]
                        ELSE stopCalls[t]]
        /\ gattConnected' = IF linkUp THEN [gc EXCEPT ![dev] = FALSE] ELSE gc
        /\ sniffs' = IF linkUp THEN StaleCalls(calls, dev) ELSE calls
        /\ snifferDeviceRef' = Null
        /\ snifferStatus' = "Disconnected"

\* stopSniffing() from its first line: remove the listener of deviceRef, then the loop.
\* With the device connected the loop awaits stopNotifications() of the first element
\* (the status is then `pending`); otherwise it skips every element and lines 63-70 run
\* in the same task.
StopSniffing(pending, calls, subscribed, gc) ==
    LET dev == snifferDeviceRef
        linkUp == dev # Null /\ gc[dev]
    IN  /\ snifferListener' = IF dev # Null
                              THEN [snifferListener EXCEPT ![dev] = FALSE]
                              ELSE snifferListener
        /\ IF subscribed # <<>> /\ linkUp
           THEN /\ \E t \in StopSlots : stops[t].pc = "idle"
                /\ stops' = [stops EXCEPT ![FreeStop] = [IdleStop EXCEPT !.pc = "stopNotifications", !.k = 1]]
                /\ subscribedCharsRef' = subscribed
                /\ snifferStatus' = pending
                /\ gattConnected' = gc
                /\ sniffs' = calls
                /\ UNCHANGED snifferDeviceRef
           ELSE StopFinish(stops, calls, subscribed, gc)

\* stopNotifications() of the element a stopSniffing() call is at settles (a rejection
\* is caught and logged): the loop goes on to the next element.
SniffStopSettled(t) ==
    /\ stops[t].pc = "stopNotifications"
    /\ LET call == stops[t]
           array == IF call.live THEN subscribedCharsRef ELSE call.arr
           linkUp == snifferDeviceRef # Null /\ gattConnected[snifferDeviceRef]
       IN  IF call.k + 1 <= Len(array) /\ linkUp
           THEN /\ stops' = [stops EXCEPT ![t].k = call.k + 1]
                /\ UNCHANGED <<snifferStatus, snifferDeviceRef, subscribedCharsRef, sniffs,
                               gattConnected>>
           ELSE StopFinish([stops EXCEPT ![t] = IdleStop], sniffs, subscribedCharsRef, gattConnected)
    /\ UNCHANGED <<controllerVars, sniffCalls, snifferListener, snifferTimers, subscribeResolved, lastSniff>>

\* Click on the button while it shows "Stop Sniffing" (isConnected).
ClickStopSniffing ==
    /\ snifferStatus = "Listening"
    /\ StopSniffing("Listening", sniffs, subscribedCharsRef, gattConnected)
    /\ UNCHANGED <<controllerVars, sniffCalls, snifferTimers, subscribeResolved, lastSniff>>

\* The link of device d drops while the controller is idle: the calls on it are
\* invalid, and 'gattserverdisconnected' runs stopSniffing if it is registered on d.
SniffLinkLost(d) ==
    /\ gattConnected[d]
    /\ LET gc == [gattConnected EXCEPT ![d] = FALSE]
           calls == StaleCalls(sniffs, d)
       IN  IF snifferListener[d]
           THEN StopSniffing(snifferStatus, calls, subscribedCharsRef, gc)
           ELSE /\ gattConnected' = gc
                /\ sniffs' = calls
                /\ UNCHANGED <<snifferStatus, snifferDeviceRef, subscribedCharsRef, snifferListener,
                               stops>>
    /\ UNCHANGED <<controllerVars, sniffCalls, snifferTimers, subscribeResolved, lastSniff>>

\* Click on the button while it shows "Start Sniffing": enabled unless the status is
\* Scanning or Connecting, and it stops when Listening.  startSniffing runs to its
\* first await (requestDevice).
ClickStartSniffing ==
    /\ snifferStatus \in {"Disconnected", "Error"}
    /\ sniffCalls < MaxSniffCalls
    /\ sniffCalls' = sniffCalls + 1
    /\ IF ~hasBluetooth
       THEN /\ snifferStatus' = "Error"
            /\ UNCHANGED sniffs
       ELSE /\ \E s \in SniffSlots : sniffs[s].pc = "idle"
            /\ snifferStatus' = "Scanning"
            /\ sniffs' = [sniffs EXCEPT ![FreeSniff] = [IdleSniff EXCEPT !.pc = "requestDevice"]]
    /\ UNCHANGED <<controllerVars, gattConnected, snifferDeviceRef, subscribedCharsRef,
                   snifferListener, snifferTimers, stops, subscribeResolved, lastSniff>>

\* requestDevice resolves with device d: store it, register stopSniffing, gatt.connect().
SniffDeviceChosen(s, d) ==
    /\ sniffs[s].pc = "requestDevice"
    /\ snifferDeviceRef' = d
    /\ snifferListener' = [snifferListener EXCEPT ![d] = TRUE]
    /\ snifferStatus' = "Connecting"
    /\ sniffs' = [sniffs EXCEPT ![s] = [IdleSniff EXCEPT !.pc = "gattConnect", !.device = d]]
    /\ UNCHANGED <<controllerVars, sniffCalls, gattConnected, subscribedCharsRef, snifferTimers, stops,
                   subscribeResolved, lastSniff>>

\* gatt.connect() resolves: the link is up; getPrimaryServices().
SniffGattConnected(s) ==
    /\ sniffs[s].pc = "gattConnect"
    /\ gattConnected' = [gattConnected EXCEPT ![sniffs[s].device] = TRUE]
    /\ sniffs' = [sniffs EXCEPT ![s] = [@ EXCEPT !.pc = "getPrimaryServices", !.stale = FALSE]]
    /\ UNCHANGED <<controllerVars, sniffCalls, snifferStatus, snifferDeviceRef, subscribedCharsRef,
                   snifferListener, snifferTimers, stops, subscribeResolved, lastSniff>>

\* getPrimaryServices() resolves with the services of `layout`: notifyCharsCount = 0,
\* and the outer loop awaits getCharacteristics() of the first service.
SniffServicesFound(s, layout) ==
    /\ sniffs[s].pc = "getPrimaryServices"
    /\ gattConnected[sniffs[s].device]
    /\ ~sniffs[s].stale
    /\ sniffs' = [sniffs EXCEPT ![s] = [@ EXCEPT !.pc = "getCharacteristics", !.services = layout,
                                                 !.svc = 1, !.count = 0]]
    /\ UNCHANGED <<controllerVars, sniffCalls, gattConnected, snifferStatus, snifferDeviceRef,
                   subscribedCharsRef, snifferListener, snifferTimers, stops, subscribeResolved,
                   lastSniff>>

\* The first characteristic of `service` at or after index `from` that passes the
\* filter of line 107, or 0.
NextSubscribable(service, from) ==
    LET passing == {j \in from..Len(service) : Subscribes(service[j])}
    IN  IF passing = {} THEN 0 ELSE CHOOSE j \in passing : \A i \in passing : j <= i

\* Lines 120-126, reached by `call` when both loops have ended and the ref holds
\* `subscribed`: Listening with a subscription; else Error, the alert, and stopSniffing().
SniffEnumerated(s, call, subscribed) ==
    /\ lastSniff' = [kind |-> IF ListensWith(call.count) THEN "listening" ELSE "empty",
                     count |-> call.count, failed |-> call.failed]
    /\ IF ListensWith(call.count)
       THEN /\ snifferStatus' = "Listening"
            /\ sniffs' = [sniffs EXCEPT ![s] = IdleSniff]
            /\ subscribedCharsRef' = subscribed
            /\ UNCHANGED <<snifferDeviceRef, snifferListener, stops, gattConnected>>
       ELSE StopSniffing("Error", [sniffs EXCEPT ![s] = IdleSniff], subscribed, gattConnected)

\* The inner loop of `call` goes on from characteristic `from` of its service: it awaits
\* startNotifications() of the next characteristic that passes the filter; with none
\* left the outer loop awaits getCharacteristics() of the next service, or ends.
SniffAdvance(s, call, from, subscribed) ==
    LET j == NextSubscribable(call.services[call.svc], from)
    IN  IF j > 0
        THEN /\ sniffs' = [sniffs EXCEPT ![s] = [call EXCEPT !.pc = "startNotifications", !.chr = j]]
             /\ subscribedCharsRef' = subscribed
             /\ UNCHANGED <<snifferStatus, snifferDeviceRef, snifferListener, stops, gattConnected,
                            lastSniff>>
        ELSE IF call.svc < Len(call.services)
        THEN /\ sniffs' = [sniffs EXCEPT ![s] = [call EXCEPT !.pc = "getCharacteristics",
                                                             !.svc = @ + 1, !.chr = 0]]
             /\ subscribedCharsRef' = subscribed
             /\ UNCHANGED <<snifferStatus, snifferDeviceRef, snifferListener, stops, gattConnected,
                            lastSniff>>
        ELSE SniffEnumerated(s, call, subscribed)

\* getCharacteristics() of the current service resolves: the inner loop starts.
SniffCharacteristicsFound(s) ==
    /\ sniffs[s].pc = "getCharacteristics"
    /\ gattConnected[sniffs[s].device]
    /\ ~sniffs[s].stale
    /\ SniffAdvance(s, sniffs[s], 1, subscribedCharsRef)
    /\ UNCHANGED <<controllerVars, sniffCalls, snifferTimers, subscribeResolved>>

\* startNotifications() resolves: register the handler, push the characteristic,
\* notifyCharsCount++, and the loop goes on.
SniffSubscribed(s) ==
    /\ sniffs[s].pc = "startNotifications"
    /\ gattConnected[sniffs[s].device]
    /\ ~sniffs[s].stale
    /\ LET call == sniffs[s]
           entry == [device |-> call.device, char |-> call.services[call.svc][call.chr]]
       IN  /\ subscribeResolved' = subscribeResolved \cup {entry}
           /\ SniffAdvance(s, [call EXCEPT !.count = @ + 1], call.chr + 1,
                           Append(subscribedCharsRef, entry))
    /\ UNCHANGED <<controllerVars, sniffCalls, snifferTimers>>

\* startNotifications() rejects: the inner catch logs it and the loop goes on.
SniffSubscribeFailed(s) ==
    /\ sniffs[s].pc = "startNotifications"
    /\ SniffAdvance(s, [sniffs[s] EXCEPT !.failed = @ + 1], sniffs[s].chr + 1, subscribedCharsRef)
    /\ UNCHANGED <<controllerVars, sniffCalls, snifferTimers, subscribeResolved>>

\* Awaits of startSniffing whose rejection reaches the outer catch, and those of them
\* that can reject with NotFoundError.
SniffAwaits == {"requestDevice", "gattConnect", "getPrimaryServices", "getCharacteristics"}
NotFoundAwaits == {"requestDevice", "getPrimaryServices", "getCharacteristics"}

\* An await of startSniffing rejects: the catch sets Disconnected on NotFoundError;
\* else it sets Error and arms the 3 s timeout.
SniffFailed(s, notFound) ==
    /\ sniffs[s].pc \in SniffAwaits
    /\ notFound => sniffs[s].pc \in NotFoundAwaits
    /\ ~notFound => snifferTimers < MaxErrorTimers
    /\ snifferStatus' = IF notFound THEN "Disconnected" ELSE "Error"
    /\ snifferTimers' = IF notFound THEN snifferTimers ELSE snifferTimers + 1
    /\ sniffs' = [sniffs EXCEPT ![s] = IdleSniff]
    /\ lastSniff' = [kind |-> IF notFound THEN "notFound" ELSE "failed",
                     count |-> sniffs[s].count, failed |-> sniffs[s].failed]
    /\ UNCHANGED <<controllerVars, sniffCalls, gattConnected, snifferDeviceRef, subscribedCharsRef,
                   snifferListener, stops, subscribeResolved>>

\* A timeout armed by startSniffing's catch fires: setStatus('Disconnected').
SnifferErrorTimeout ==
    /\ snifferTimers > 0
    /\ snifferTimers' = snifferTimers - 1
    /\ snifferStatus' = "Disconnected"
    /\ UNCHANGED <<controllerVars, sniffCalls, gattConnected, snifferDeviceRef, subscribedCharsRef,
                   snifferListener, sniffs, stops, subscribeResolved, lastSniff>>

\* ------------------------------------------------------------ specifications

\* The state after the App component is constructed.
Init ==
    /\ hasBluetooth \in BOOLEAN
    /\ mounted = TRUE
    /\ SnifferIdle
    /\ connectionStatus = DISCONNECTED
    /\ deviceRef = Null
    /\ writeCharRef = Null
    /\ keepAliveIntervalRef = FALSE
    /\ errorTimers = 0
    /\ gattConnected = [d \in Devices |-> FALSE]
    /\ disconnectListener = [d \in Devices |-> FALSE]
    /\ notifying = [d \in Devices |-> FALSE]
    /\ connects = [s \in Slots |-> IdleCall]
    /\ connectCalls = 0
    /\ keepAliveWrites = [d \in Devices |-> "none"]
    /\ notification = <<>>
    /\ handledPayload = <<>>
    /\ opCodes = DefaultOpCodes
    /\ macroCommands = <<>>
    /\ edits = 0
    /\ casts = [c \in CastSlots |-> IdleCast]
    /\ isOpCodeTestMode = FALSE
    /\ opcodeToTest = 1
    /\ probes = [p \in ProbeSlots |-> IdleProbe]
    /\ activations = 0
    /\ probeFaults = 0
    /\ probeRun = -1
    /\ probeSequential = TRUE
    /\ logsLen = 0
    /\ lastLog = NoLog
    /\ lastLogId = -1
    /\ now = 0
    /\ random \in Randoms

\* The connection supervisor: connect button, connect() steps, transport events,
\* keepalive and the Error-revert timeout.
Next ==
    \/ ClickConnect
    \/ \E s \in Slots, d \in Devices : DeviceChosen(s, d)
    \/ \E s \in Slots : GattConnected(s)
    \/ \E s \in Slots : ServiceFound(s)
    \/ \E s \in Slots : WriteCharFound(s)
    \/ \E s \in Slots : NotifyCharFound(s)
    \/ \E s \in Slots : NotificationsStarted(s)
    \/ \E s \in Slots : ConnectFailed(s)
    \/ ErrorTimeout
    \/ ClickDisconnect
    \/ \E d \in Devices : LinkLost(d)
    \/ KeepAliveTick
    \/ \E d \in Devices : KeepAliveWritten(d)
    \/ \E d \in Devices : KeepAliveFailed(d)

Spec == Init /\ [][Next]_vars

\* The controller session in which every armed 3 s timeout eventually fires.
SpecFair == Spec /\ WF_vars(ErrorTimeout)

\* The controller session with its ways out: the component may unmount, and the
\* transport's disconnect call may throw.
NextTeardown ==
    \/ Next
    \/ ClickDisconnectThrows
    \/ Unmount

SpecTeardown == Init /\ [][NextTeardown]_vars

\* The controller session while the clock advances.
NextLog ==
    \/ Next
    \/ ClockTick

SpecLog == Init /\ [][NextLog]_vars

\* A session right after a first connect() succeeded on one wand: the state
\* NotificationsStarted leaves, reached in Spec.
ConnectedSession ==
    LET wand == DeviceNames[1]
    IN  /\ hasBluetooth = TRUE
        /\ mounted = TRUE
        /\ SnifferIdle
        /\ connectionStatus = CONNECTED
        /\ deviceRef = wand
        /\ writeCharRef = wand
        /\ keepAliveIntervalRef = TRUE
        /\ errorTimers = 0
        /\ gattConnected = [d \in Devices |-> d = wand]
        /\ disconnectListener = [d \in Devices |-> d = wand]
        /\ notifying = [d \in Devices |-> d = wand]
        /\ connects = [s \in Slots |-> IdleCall]
        /\ connectCalls = 1
        /\ keepAliveWrites = [d \in Devices |-> "none"]
        /\ logsLen = 6
        /\ lastLogId = LogId(0, 1)
        /\ now = 0
        /\ random = 0
        /\ lastLog = LogEntry("info", "Successfully connected. Wand is active!", <<>>, NoData)

\* Macros the user can have built: any sequence of Add-menu commands, and short macros
\* whose durations and colors were edited through the number and color inputs.
Durations == {-70000, -1, 0, 300, 32767, 32768, 70000}
Colors == {"FF00FF", "12ab9c"}
EditedCommands ==
    {ClearLedsCommand} \cup {BuzzCommand(d) : d \in Durations}
        \cup {ChangeLedCommand(0, col, d) : col \in Colors, d \in Durations}
AddedMacros == UNION {[1..n -> {NewCommand(t) : t \in CommandType}] : n \in 0..MaxMacroLen}
EditedMacros == UNION {[1..n -> EditedCommands] : n \in 0..MaxEditedLen}
ScenarioMacro == <<ClearLedsCommand, BuzzCommand(300), ChangeLedCommand(0, "FF00FF", 500)>>
\* Add-menu macros of 20 bytes (one full chunk), 40 bytes and 45 bytes (20 + 20 + 5).
Repeat(cmd, n) == [k \in 1..n |-> cmd]
Macro20 == Repeat(NewCommand(CHANGE_LED), 2) \o Repeat(NewCommand(BUZZ), 2)
Macro40 == Macro20 \o Macro20
Macro45 == Repeat(NewCommand(CHANGE_LED), 6) \o <<NewCommand(BUZZ)>>
LongMacros == {Macro20, Macro40, Macro45}
\* Opcode tables the user can have set through the opcode inputs.
EditedOpCodes == [t \in CommandType |->
    CASE t = CLEAR_LEDS -> 0 [] t = BUZZ -> 255 [] t = CHANGE_LED -> 1]
OpCodeTables == {DefaultOpCodes, EditedOpCodes}

\* A connected session in which the user has built a macro from the Add menu.
InitCast ==
    /\ ConnectedSession
    /\ notification = <<>>
    /\ handledPayload = <<>>
    /\ opCodes = DefaultOpCodes
    /\ macroCommands \in AddedMacros \cup LongMacros
    /\ edits = 0
    /\ casts = [c \in CastSlots |-> IdleCast]
    /\ isOpCodeTestMode = FALSE
    /\ opcodeToTest = 1
    /\ probes = [p \in ProbeSlots |-> IdleProbe]
    /\ activations = 0
    /\ probeFaults = 0
    /\ probeRun = -1
    /\ probeSequential = TRUE

\* A connected session in which the user has edited the opcode table and the
\* durations and colors of a macro.
InitEncode ==
    /\ ConnectedSession
    /\ notification = <<>>
    /\ handledPayload = <<>>
    /\ opCodes \in OpCodeTables
    /\ macroCommands \in EditedMacros \cup {ScenarioMacro}
    /\ edits = 0
    /\ casts = [c \in CastSlots |-> IdleCast]
    /\ isOpCodeTestMode = FALSE
    /\ opcodeToTest = 1
    /\ probes = [p \in ProbeSlots |-> IdleProbe]
    /\ activations = 0
    /\ probeFaults = 0
    /\ probeRun = -1
    /\ probeSequential = TRUE

\* Casting: the Cast Macro button and the steps of sendMacro, while the session may
\* be disconnected by the user or by the transport.
NextCast ==
    \/ \E c \in CastSlots : ClickCast(c)
    \/ \E c \in CastSlots : CastWritten(c)
    \/ \E c \in CastSlots : CastWriteFailed(c)
    \/ \E c \in CastSlots : CastDelayElapsed(c)
    \/ ClickDisconnect
    \/ \E d \in Devices : LinkLost(d)

SpecCast == InitCast /\ [][NextCast]_vars

\* Encoding: one cast of an edited macro over a link that stays up.
NextEncode ==
    \/ ClickCast(1)
    \/ CastWritten(1)
    \/ CastDelayElapsed(1)

SpecEncode == InitEncode /\ [][NextEncode]_vars

\* A connected session in which the user edits the opcode table and a macro of more
\* than one chunk while casting.
InitEdit ==
    /\ ConnectedSession
    /\ notification = <<>>
    /\ handledPayload = <<>>
    /\ opCodes = DefaultOpCodes
    /\ macroCommands = Repeat(NewCommand(CHANGE_LED), 3)
    /\ edits = 0
    /\ casts = [c \in CastSlots |-> IdleCast]
    /\ isOpCodeTestMode = FALSE
    /\ opcodeToTest = 1
    /\ probes = [p \in ProbeSlots |-> IdleProbe]
    /\ activations = 0
    /\ probeFaults = 0
    /\ probeRun = -1
    /\ probeSequential = TRUE

NextEdit ==
    \/ \E kind \in CommandType, text \in OpCodeTexts : EditOpCode(kind, text)
    \/ \E type \in CommandType : AddCommand(type)
    \/ \E i \in 1..Len(macroCommands) : RemoveCommand(i)
    \/ \E i \in 1..Len(macroCommands), text \in DurationTexts : UpdateDuration(i, text)
    \/ \E i \in 1..Len(macroCommands), value \in ColorValues : UpdateColor(i, value)
    \/ \E c \in CastSlots : ClickCast(c)
    \/ \E c \in CastSlots : CastWritten(c)
    \/ \E c \in CastSlots : CastDelayElapsed(c)

SpecEdit == InitEdit /\ [][NextEdit]_vars

\* A connected session in which the wand is about to deliver one notification: an
\* event carrying any payload, or an event whose characteristic holds no value.
InitDecode ==
    /\ ConnectedSession
    /\ notification \in {<<[hasValue |-> TRUE, data |-> p]>> : p \in Payloads}
                            \cup {<<[hasValue |-> FALSE, data |-> <<>>]>>}
    /\ handledPayload = <<>>
    /\ opCodes = DefaultOpCodes
    /\ macroCommands = <<>>
    /\ edits = 0
    /\ casts = [c \in CastSlots |-> IdleCast]
    /\ isOpCodeTestMode = FALSE
    /\ opcodeToTest = 1
    /\ probes = [p \in ProbeSlots |-> IdleProbe]
    /\ activations = 0
    /\ probeFaults = 0
    /\ probeRun = -1
    /\ probeSequential = TRUE

NextDecode == HandleNotifications

SpecDecode == InitDecode /\ [][NextDecode]_vars

\* A connected session before the discovery mode is first switched on.
InitProbe ==
    /\ ConnectedSession
    /\ notification = <<>>
    /\ handledPayload = <<>>
    /\ opCodes = DefaultOpCodes
    /\ macroCommands = <<>>
    /\ edits = 0
    /\ casts = [c \in CastSlots |-> IdleCast]
    /\ isOpCodeTestMode = FALSE
    /\ opcodeToTest = 1
    /\ probes = [p \in ProbeSlots |-> IdleProbe]
    /\ activations = 0
    /\ probeFaults = 0
    /\ probeRun = -1
    /\ probeSequential = TRUE

\* Opcode discovery: the mode button and the probe steps, while the session may be
\* disconnected by the user or by the transport.
NextProbe ==
    \/ ToggleTestMode
    \/ \E p \in ProbeSlots : ClickTestNext(p)
    \/ \E p \in ProbeSlots : ProbeWritten(p)
    \/ \E p \in ProbeSlots : ProbeWriteFailed(p)
    \/ ClickDisconnect
    \/ \E d \in Devices : LinkLost(d)

SpecProbe == InitProbe /\ [][NextProbe]_vars

\* The sniffer panel with the controller idle: the button, the steps of startSniffing
\* and stopSniffing, the transport dropping the link, and the Error-revert timeout.
InitSniff == Init /\ random = 0

NextSniff ==
    \/ ClickStartSniffing
    \/ \E s \in SniffSlots, d \in Devices : SniffDeviceChosen(s, d)
    \/ \E s \in SniffSlots : SniffGattConnected(s)
    \/ \E s \in SniffSlots, layout \in Layouts : SniffServicesFound(s, layout)
    \/ \E s \in SniffSlots : SniffCharacteristicsFound(s)
    \/ \E s \in SniffSlots : SniffSubscribed(s)
    \/ \E s \in SniffSlots : SniffSubscribeFailed(s)
    \/ \E s \in SniffSlots, notFound \in BOOLEAN : SniffFailed(s, notFound)
    \/ SnifferErrorTimeout
    \/ ClickStopSniffing
    \/ \E t \in StopSlots : SniffStopSettled(t)
    \/ \E d \in Devices : SniffLinkLost(d)

SpecSniff == InitSniff /\ [][NextSniff]_vars

\* ------------------------------------------------------------------- claims

\* C1 (as claimed): in every reachable state the keepalive interval is active if and
\* only if ConnectionState is Connected.
C1_KeepaliveIffConnected == keepAliveIntervalRef <=> (connectionStatus = CONNECTED)

\* C2 (as claimed): at most one connect attempt is awaiting the transport at any time.
\* An attempt whose promise was rejected and whose catch has not run yet is not counted.
C2_OneConnectInFlight ==
    Cardinality({s \in Slots : connects[s].pc \in ConnectAwaits \ {"rejected"}}) <= 1

\* C3 (as claimed): whenever ConnectionState is Connected, the write characteristic is
\* bound and notifications on its device are subscribed.
C3_ConnectedHasBindings ==
    connectionStatus = CONNECTED => (writeCharRef # Null /\ notifying[writeCharRef])

\* The wire encoding the protocol prescribes, stated without the code's operators.
CommandSize(cmd) ==
    CASE cmd.type = CLEAR_LEDS -> 1 [] cmd.type = BUZZ -> 3 [] cmd.type = CHANGE_LED -> 7
RECURSIVE MacroSize(_)
MacroSize(macro) == IF macro = <<>> THEN 0 ELSE MacroSize(SubSeq(macro, 1, Len(macro) - 1)) + CommandSize(macro[Len(macro)])
\* The little-endian 16-bit two's complement of the duration capped at 32767.
WireDuration(duration) ==
    LET capped == IF duration > 32767 THEN 32767 ELSE duration
        u16 == capped % 65536
    IN  <<u16 % 256, u16 \div 256>>
ColorBytes(hexColor) ==
    CASE hexColor = "0000FF" -> <<0, 0, 255>>
      [] hexColor = "FF00FF" -> <<255, 0, 255>>
      [] hexColor = "12ab9c" -> <<18, 171, 156>>
CommandEncoding(cmd, table) ==
    CASE cmd.type = CLEAR_LEDS -> <<table[CLEAR_LEDS]>>
      [] cmd.type = BUZZ -> <<table[BUZZ]>> \o WireDuration(cmd.duration)
      [] cmd.type = CHANGE_LED ->
            <<table[CHANGE_LED], cmd.groupId>> \o ColorBytes(cmd.hexColor) \o WireDuration(cmd.duration)
\* The bytes of command j within the encoding `bytes` of `macro`.
CommandBytes(bytes, macro, j) ==
    SubSeq(bytes, MacroSize(SubSeq(macro, 1, j - 1)) + 1, MacroSize(SubSeq(macro, 1, j)))
ScenarioBytes == <<170, 187, 44, 1, 204, 0, 255, 0, 255, 244, 1>>
StartedCasts == {c \in CastSlots : casts[c].pc # "idle"}

\* C4: the bytes sendMacro builds are, command by command and in macro order, the
\* encodings [op], [op, lo, hi], [op, group, R, G, B, lo, hi] with the duration, capped
\* at 32767, little-endian; their length is the sum of 1/3/7 per command; and the
\* scenario macro under the default table gives AA BB 2C 01 CC 00 FF 00 FF F4 01.
C4_EncodingIsConcatenation ==
    \A c \in StartedCasts :
        LET cast == casts[c]
        IN  /\ Len(cast.bytes) = MacroSize(cast.macro)
            /\ \A j \in 1..Len(cast.macro) :
                   CommandBytes(cast.bytes, cast.macro, j) = CommandEncoding(cast.macro[j], cast.table)
            /\ (cast.macro = ScenarioMacro /\ cast.table = DefaultOpCodes) => cast.bytes = ScenarioBytes

\* C4 witness: the scenario macro has been cast under the default table.
C4_Witness ==
    /\ casts[1].pc = "done"
    /\ casts[1].macro = ScenarioMacro
    /\ casts[1].table = DefaultOpCodes
    /\ casts[1].bytes = ScenarioBytes

\* C5 (as claimed): for every Buzz and ChangeLed command of a cast macro, the two
\* duration bytes form a value lo + 256 * hi of at most 32767.
C5_WireDurationCapped ==
    \A c \in StartedCasts :
        \A j \in 1..Len(casts[c].macro) :
            casts[c].macro[j].type \in {BUZZ, CHANGE_LED} =>
                LET b == CommandBytes(casts[c].bytes, casts[c].macro, j)
                IN  b[Len(b) - 1] + 256 * b[Len(b)] <= 32767

\* The writes of a cast, concatenated.
RECURSIVE Flatten(_)
Flatten(chunks) == IF chunks = <<>> THEN <<>> ELSE Head(chunks) \o Flatten(Tail(chunks))
CeilDiv(n, d) == (n + d - 1) \div d

\* C7: a cast whose sendData calls all found the write characteristic bound issues
\* ceil(L / 20) writes of at most 20 bytes each, whose concatenation in order is the
\* encoded macro; while a write is pending or its delay has not elapsed the cast has
\* issued exactly the writes up to that chunk; a 45-byte macro goes out as 20, 20, 5.
C7_ChunkedInOrder ==
    \A c \in StartedCasts :
        LET cast == casts[c]
            L == Len(cast.bytes)
        IN  cast.unsent = 0 =>
              /\ \A k \in 1..Len(cast.written) : Len(cast.written[k]) \in 1..MTU_PAYLOAD_SIZE
              /\ cast.pc \in {"writing", "delay"} =>
                    /\ Len(cast.written) = (cast.i \div MTU_PAYLOAD_SIZE) + 1
                    /\ Flatten(cast.written) = SubSeq(cast.bytes, 1, MathMin(cast.i + MTU_PAYLOAD_SIZE, L))
              /\ cast.pc = "done" =>
                    /\ Len(cast.written) = CeilDiv(L, MTU_PAYLOAD_SIZE)
                    /\ Flatten(cast.written) = cast.bytes
                    /\ L = 45 => [k \in 1..3 |-> Len(cast.written[k])] = <<20, 20, 5>>

\* C7 witness: a 45-byte macro has been cast in three writes with the characteristic
\* bound throughout.
C7_Witness ==
    \E c \in CastSlots :
        /\ casts[c].pc = "done"
        /\ casts[c].unsent = 0
        /\ Len(casts[c].bytes) = 45
        /\ Len(casts[c].written) = 3

\* The text the claim derives from a payload: bytes[4:] with the NUL padding stripped
\* and then the surrounding whitespace stripped.
StrippedTail(data) == Trim(RemoveNul(TextDecode(SliceFrom(data, SPELL_DATA_HEADER_LEN))))

\* C6 (as claimed): a handled payload is logged as a Spell exactly when its length is
\* at least 7 and bytes[4:] is non-empty after stripping NUL padding and surrounding
\* whitespace, the name being that text in upper case; otherwise it is logged as Raw
\* with the whole payload in lower-case hex without separators.
C6_ClassifiedAsClaimed ==
    handledPayload # <<>> =>
        LET data == handledPayload[1]
        IN  IF Len(data) >= SPELL_MIN_LEN /\ StrippedTail(data) # <<>>
            THEN lastLog.type = "spell" /\ lastLog.name = ToUpperCase(StrippedTail(data))
            ELSE lastLog.type = "raw" /\ lastLog.data = JoinHex(data, "")

\* C8 (as claimed): in a discovery run started at probe 0x01, step N writes the byte N,
\* whether or not the step was triggered while an earlier write was pending.
C8_StepWritesItsNumber ==
    \A p \in ProbesInFlight : probes[p].step >= 1 => probes[p].opcodeToTest = probes[p].step

\* The state after exactly n probe steps made one after the other since the mode was
\* switched on at probe 0x01.
AfterSequentialSteps(n) == probeRun = n /\ probeSequential /\ ProbesInFlight = {}

\* C9 (as claimed): after exactly 255 sequential probe steps from probe 0x01 the mode
\* is inactive and the counter is 0x01.
C9_InactiveAfter255 ==
    AfterSequentialSteps(255) => (~isOpCodeTestMode /\ opcodeToTest = 1)

\* C9 (amended): after exactly 255 sequential probe steps from probe 0x01 the mode is
\* still active and the counter is 0x100; only a further step ends the scan.
C9_ActiveAfter255 ==
    AfterSequentialSteps(255) => (isOpCodeTestMode /\ opcodeToTest = 256)

\* C9 witness: 255 sequential steps have been made since activation at probe 0x01.
C9_Witness == AfterSequentialSteps(255)

\* C10: the 256th sequential call of testNextOpCode after activation at probe 0x01
\* leaves the mode inactive and the counter at 0x01.
C10_InactiveAfter256 ==
    AfterSequentialSteps(256) => (~isOpCodeTestMode /\ opcodeToTest = 1)

\* C10 witness: the 256th sequential call has been made and the mode is off.
C10_Witness == AfterSequentialSteps(256) /\ ~isOpCodeTestMode

\* C11 (as claimed): a disconnect() call made while the controller is already
\* Disconnected (nothing bound, no keepalive timer), from a heartbeat write's catch or
\* from the 'gattserverdisconnected' listener, changes neither ConnectionState, nor the
\* device and write-characteristic handles, nor the keepalive timer, nor the log.
C11_DisconnectTwiceIsNoOp ==
    [][(/\ connectionStatus = DISCONNECTED
        /\ deviceRef = Null /\ writeCharRef = Null /\ ~keepAliveIntervalRef
        /\ \E d \in Devices : KeepAliveFailed(d) \/ (disconnectListener[d] /\ LinkLost(d)))
       => UNCHANGED <<connectionStatus, deviceRef, writeCharRef, keepAliveIntervalRef, logVars>>]_vars

\* C12 (as claimed): the controller's telemetry log never holds more than 200 entries.
C12_LogAtMost200 == logsLen <= 200

\* C13 (as claimed): of two log entries appended one after the other, in the same
\* millisecond or not, the later has the strictly greater id.
C13_LogIdsIncrease ==
    [][(logsLen > 0 /\ logsLen' > logsLen) => lastLogId' > lastLogId]_vars

\* The texts that parse to no number or to a number outside 0..255.
RejectedOpCodeTexts ==
    {text \in OpCodeTexts : OpCodeParsed(text).nan \/ OpCodeParsed(text).value \notin 0..255}

\* C14: each of the three opcode table entries is always an integer in 0..255, and an
\* opcode edit whose input parses to no number or to a number outside 0..255 leaves
\* the whole table unchanged (no step that changes the table is such an edit).
C14_OpCodesStayBytes ==
    /\ [](\A t \in CommandType : opCodes[t] \in 0..255)
    /\ [][opCodes' # opCodes =>
            \A kind \in CommandType, text \in RejectedOpCodeTexts : ~EditOpCode(kind, text)]_vars

\* C14 witness: one edit was made and it was a rejected opcode edit (no other edit
\* leaves both the table and the macro as they were).
C14_Witness ==
    /\ edits = 1
    /\ opCodes = DefaultOpCodes
    /\ macroCommands = Repeat(NewCommand(CHANGE_LED), 3)

\* C15: the chunks a cast has written are, in order, bytes of the sequence encoded
\* from the macro and the opcode table when sendMacro was called, whatever edits were
\* made since; a cast that has ended has written exactly that sequence.
C15_CastUsesSnapshot ==
    \A c \in StartedCasts :
        LET cast == casts[c]
            sent == Flatten(cast.written)
        IN  cast.unsent = 0 =>
              /\ Len(sent) <= Len(cast.bytes)
              /\ sent = SubSeq(cast.bytes, 1, Len(sent))
              /\ cast.pc = "done" => sent = cast.bytes

\* C15 witness: a cast has ended after the table or the macro was edited while its
\* second chunk was still to be sent, and what it wrote differs from what the edited
\* state encodes to.
C15_Witness ==
    \E c \in CastSlots :
        /\ casts[c].pc = "done"
        /\ Len(casts[c].written) >= 2
        /\ casts[c].unsent = 0
        /\ edits > 0
        /\ Flatten(casts[c].written) # FullCommandBytes(macroCommands, opCodes)

\* C16 (as claimed): when requestDevice rejects (the user cancels the chooser or no
\* device matches), ConnectionState goes back to Disconnected and not to Error.
C16_NotFoundRevertsSilently ==
    [][\A s \in Slots :
         (connects[s].pc = "requestDevice" /\ ConnectFailed(s)) => connectionStatus' = DISCONNECTED]_vars

\* C17: a connect attempt that fails after its device was chosen (during GATT connect,
\* discovery or subscription) sets Error, and Error leads to Disconnected once the 3 s
\* timeout fires.
C17_ErrorLeadsToDisconnected ==
    /\ [][\A s \in Slots :
            (connects[s].device # Null /\ ConnectFailed(s)) => connectionStatus' = ERROR]_vars
    /\ (connectionStatus = ERROR) ~> (connectionStatus = DISCONNECTED)

\* C17 witness: the session's only connect attempt failed after its device was chosen
\* and the state is Error with the timeout pending.
C17_Witness ==
    /\ connectionStatus = ERROR
    /\ connectCalls = 1
    /\ deviceRef # Null
    /\ errorTimers = 1

\* C18 (as claimed): when disconnect() called by the user or by a heartbeat write's
\* catch takes the link of a device down, the notifications on that device have been
\* unsubscribed before.
C18_UnsubscribeBeforeLinkDown ==
    [][\A d \in Devices :
         (/\ gattConnected[d] /\ ~gattConnected'[d]
          /\ ClickDisconnect \/ \E e \in Devices : KeepAliveFailed(e))
         => ~notifying[d]]_vars

\* C19 (as claimed): when a chunk write of a cast is rejected, the session is torn
\* down: the keepalive is stopped, the write handle cleared, the state Disconnected.
C19_ChunkFailureTearsDown ==
    [][\A c \in CastSlots :
         CastWriteFailed(c) =>
            (~keepAliveIntervalRef' /\ writeCharRef' = Null /\ connectionStatus' = DISCONNECTED)]_vars

\* C20: when a heartbeat write is rejected while Connected, the write is not issued
\* again and the teardown runs: the keepalive timer is cancelled (so no further
\* heartbeat fires), the handles are cleared and the state is Disconnected.
C20_HeartbeatFailureTearsDown ==
    [][\A d \in Devices :
         (connectionStatus = CONNECTED /\ KeepAliveFailed(d)) =>
            /\ ~keepAliveIntervalRef'
            /\ keepAliveWrites'[d] = "none"
            /\ writeCharRef' = Null /\ deviceRef' = Null
            /\ connectionStatus' = DISCONNECTED]_vars

\* C20 witness: Connected with a heartbeat write awaiting its outcome, the state in
\* which the write is rejected.
C20_Witness ==
    /\ connectionStatus = CONNECTED
    /\ writeCharRef # Null
    /\ keepAliveWrites[writeCharRef] = "pending"

\* C21 (as claimed): disconnect() called from the Disconnect button while Connected ends
\* with both handles cleared and the state Disconnected, also when the transport's
\* disconnect call throws.
C21_DisconnectAlwaysClears ==
    [][(ClickDisconnect \/ ClickDisconnectThrows) =>
          (deviceRef' = Null /\ writeCharRef' = Null /\ connectionStatus' = DISCONNECTED)]_vars

\* C22 (as claimed): when the component unmounts while Connected, the keepalive timer
\* is cancelled and the link of the bound device is taken down.
C22_UnmountTearsDown ==
    [][(connectionStatus = CONNECTED /\ Unmount) =>
          (~keepAliveIntervalRef' /\ \A d \in Devices : ~gattConnected'[d])]_vars

\* C23 (as claimed): whenever the discovery mode goes from inactive to active the probe
\* counter is 0x01, and while the mode stays active the counter never decreases.  The
\* Activate button is enabled in every Connected state, so the counter has to be 0x01
\* in every Connected state in which the mode is inactive.
C23_CounterStartsAtOne ==
    /\ [][(~isOpCodeTestMode /\ isOpCodeTestMode') => opcodeToTest' = 1]_vars
    /\ []((~isOpCodeTestMode /\ connectionStatus = CONNECTED /\ mounted) => opcodeToTest = 1)
    /\ [][(isOpCodeTestMode /\ isOpCodeTestMode') => opcodeToTest' >= opcodeToTest]_vars

\* C26 (as claimed): an Error-revert timeout that fires when the state is no longer
\* Error (a new connect attempt has started or completed) leaves ConnectionState as it is.
C26_StaleTimerIsInert ==
    [][(connectionStatus # ERROR /\ ErrorTimeout) => connectionStatus' = connectionStatus]_vars

\* Cast c has issued its first chunk and not yet its last.
Midway(c) ==
    /\ Len(casts[c].written) >= 1
    /\ Len(casts[c].written) + casts[c].unsent < CeilDiv(Len(casts[c].bytes), MTU_PAYLOAD_SIZE)

\* C27 (as claimed): the chunks of one cast are written contiguously, so at no time two
\* casts are both between their first and their last chunk.
C27_ChunksContiguous == Cardinality({c \in CastSlots : Midway(c)}) <= 1

\* C28 (as claimed): when a connect attempt fails, at whatever step, no write
\* characteristic is bound and no keepalive timer is active in the Error state it
\* leaves, nor in the Disconnected state the timeout then sets.
C28_FailedConnectLeavesNothingBound ==
    /\ [][\A s \in Slots : ConnectFailed(s) => (writeCharRef' = Null /\ ~keepAliveIntervalRef')]_vars
    /\ [][(connectionStatus = ERROR /\ ErrorTimeout) =>
             (writeCharRef' = Null /\ ~keepAliveIntervalRef')]_vars

\* The enumeration of call s ends in this step: both loops of startSniffing are done.
Enumerated(s) ==
    /\ SniffCharacteristicsFound(s) \/ SniffSubscribed(s) \/ SniffSubscribeFailed(s)
    /\ sniffs'[s].pc = "idle"

\* C24: when the enumeration ends with at least one characteristic subscribed, the
\* status becomes Listening, however many subscribe attempts failed; when it ends with
\* none, the status is not Listening and stopSniffing runs, and a stopSniffing that
\* ends leaves the subscription set empty, the link of the bound device down, the
\* device handle cleared and the status Disconnected.
C24_EnumerationOutcome ==
    /\ [][\A s \in SniffSlots :
            Enumerated(s) =>
               IF lastSniff'.count > 0
               THEN snifferStatus' = "Listening"
               ELSE /\ snifferStatus' # "Listening"
                    /\ \/ \E t \in StopSlots : stops[t].pc = "idle" /\ stops'[t].pc # "idle"
                       \/ /\ subscribedCharsRef' = <<>>
                          /\ snifferDeviceRef' = Null
                          /\ snifferDeviceRef # Null => ~gattConnected'[snifferDeviceRef]
                          /\ snifferStatus' = "Disconnected"]_vars
    /\ [][\A t \in StopSlots :
            (stops[t].pc # "idle" /\ stops'[t].pc = "idle") =>
               /\ subscribedCharsRef' = <<>>
               /\ snifferDeviceRef' = Null
               /\ snifferDeviceRef # Null => ~gattConnected'[snifferDeviceRef]
               /\ snifferStatus' = "Disconnected"]_vars

\* C24 witness: the only startSniffing call made ended its enumeration with every
\* subscribe attempt failed, and the session is torn down.
C24_Witness ==
    /\ sniffCalls = 1
    /\ lastSniff.kind = "empty"
    /\ lastSniff.failed >= 1
    /\ snifferStatus = "Disconnected"
    /\ snifferDeviceRef = Null
    /\ subscribedCharsRef = <<>>
    /\ \A d \in Devices : ~gattConnected[d]

\* C25: every element of the subscription set is a characteristic with the notify or
\* the indicate property, outside the denylist, whose startNotifications() resolved;
\* startNotifications() is never called on a denylisted characteristic, and none
\* resolved on one.
C25_SubscribedPassTheFilter ==
    /\ \A i \in 1..Len(subscribedCharsRef) :
          LET entry == subscribedCharsRef[i]
          IN  /\ entry.char.notify \/ entry.char.indicate
              /\ entry.char.uuid \notin PROBLEMATIC_UUIDS
              /\ entry \in subscribeResolved
    /\ \A entry \in subscribeResolved : entry.char.uuid \notin PROBLEMATIC_UUIDS
    /\ \A s \in SniffSlots :
          sniffs[s].pc = "startNotifications" =>
             sniffs[s].services[sniffs[s].svc][sniffs[s].chr].uuid \notin PROBLEMATIC_UUIDS

\* C25 witness: a call has passed over the indicating, denylisted Service Changed
\* characteristic of its first service and has subscribed a later characteristic.
C25_Witness ==
    \E s \in SniffSlots :
        /\ sniffs[s].pc # "idle"
        /\ sniffs[s].svc = 3
        /\ sniffs[s].services[1] = <<ServiceChanged>>
        /\ sniffs[s].count >= 1
        /\ subscribedCharsRef # <<>>

\* C29 (as claimed): in every state with status Listening the device handle is bound
\* and the subscription set is not empty.
C29_ListeningIsBound ==
    snifferStatus = "Listening" => (snifferDeviceRef # Null /\ subscribedCharsRef # <<>>)

====
